---- MODULE Spec2Model ----
(***************************************************************************)
(* Pomodoro timer browser extension: the alarm-based background worker     *)
(* (src/unnamed/part_004, lines 342-577) and the current popup             *)
(* (src/src/components/PomodoroTimer/PomodoroTimer.jsx), coordinating      *)
(* through chrome.storage.sync, chrome.alarms and chrome.runtime messages. *)
(*                                                                         *)
(* Asynchrony.  chrome.storage.sync.get(keys, cb) is modelled in two       *)
(* steps: the read of the store (StorageRead) and, later, the callback,    *)
(* which applies the chrome.storage.sync.set it issues.  The source orders *)
(* independent storage calls in no way, so pending calls of the worker are *)
(* a bag and complete in any order.  A write of the popup is applied in    *)
(* the step of the handler that awaits it.                                 *)
(*                                                                         *)
(* Time.  now is Date.now() in milliseconds; it advances by ClockStep.     *)
(* null is the number 0, as in the arithmetic Date.now() - null.           *)
(*                                                                         *)
(* Installation.  onInstalled is the first event of the extension: until   *)
(* it has run, no time passes, the worker is not suspended and the popup   *)
(* is not opened.                                                          *)
(*                                                                         *)
(* Specifications.  Spec is the timer: worker and popup, every message     *)
(* answered.  SpecSilent is the popup whose messages get no answer.        *)
(* SpecInput is the popup's custom-duration input with its debounce, time  *)
(* passing in steps shorter than the delay.  SpecSettings is a run going   *)
(* to its alarm while the user toggles the settings.  SpecFn is            *)
(* initializeTimer on a running record.  SpecPopup is the loaded popup at  *)
(* its controls with the worker answering, no time passing.  SpecMsg is    *)
(* the message listener on the messages it may receive.  SpecBadge is one  *)
(* refresh tick setting the badge.  SpecRun is a run left to itself, with  *)
(* the worker's events weakly fair.  SpecIdle is initializeTimer with no   *)
(* run in flight.  SpecLoad is the popup's loadState, its read answered or *)
(* rejected.  SpecLegacy is the earlier pairing: the popup that counts     *)
(* down by itself with the background that starts its own interval.        *)
(* timerUtils.saveSettings and loadSettings are not among the sources;     *)
(* they follow the description of the persisted settings record.           *)
(***************************************************************************)
EXTENDS Bags, FiniteSets, Integers, Sequences, TLC

\* ---------------------------------------------------------------- bounds
ClockStart == 20000000
ClockStep == 1000
MaxClock == 2
MaxPending == 2
MaxMsgs == 1
MaxEvents == 1
MaxRestarts == 1
MaxClicks == 3
InitRemaining == {0, 2}
QuickInputs == {5}
Angles == {0, 6}
FnMaxR == 4
MaxKeys == 2
FineStep == 150
FineSpan == 600
CustomInputs == {<<>>, <<0>>, <<3>>, <<0, 7>>, <<1, 8, 1>>, <<3, 10>>}
BadgeMax == 130
MsgLen == 2
FnDeltas == {0, 1, 999, 1000, 1001, 1999, 2000, 2500, 3000, 4001}

\* ------------------------------------------------------ program constants
SecPerMin == 60
MsPerSec == 1000
DefaultDuration == 25
QuickPresets == {5, 15, 25, 45, 60}
NoTime == 0
NoAlarm == 0
DebounceMs == 300
MinCustom == 1
MaxCustom == 180
NaN == 0 - 1

VARIABLES
  now,            \* Date.now(), ms
  clock,          \* number of clock steps taken
  store,          \* <<>> or <<pomodoroState record>>
  alarmAt,        \* time the alarm 'pomodoroTimer' is due, or NoAlarm
  worker,         \* TRUE while the background worker script is loaded
  updateInterval, \* <<>> or <<[timeRemaining, nextAt]>>: the setInterval
  ops,            \* bag of the worker's pending storage calls
  startup,        \* TRUE while an onStartup event is undelivered
  restarts,       \* worker loads so far
  badge,          \* badge text
  popup,          \* "closed", "loading" or "open"
  loadSnap,       \* the record loadState read, while "loading"
  view,           \* the popup's view model
  msgs,           \* messages in flight, popup -> worker
  acks,           \* responses in flight, worker -> popup
  events,         \* storage.onChanged notifications in flight to the popup
  clicks,         \* popup actions so far
  installed,      \* TRUE once onInstalled has run
  hist,           \* history of the current run, for the properties
  settings,       \* <<>> or <<stored settings record>>
  prefs,          \* the popup's theme and autoOpenPopup
  sevents,        \* storage.onChanged notifications of settings in flight
  debounceRef,    \* <<>> or <<[value, dueAt]>>: the popup's pending setTimeout
  alarms,         \* alarms named 'pomodoroTimer' that exist
  timers,         \* setInterval timers of the worker that exist
  intervalRef     \* <<>> or <<[nextAt]>>: the self-counting popup's setInterval

vars == <<now, clock, store, alarmAt, worker, updateInterval, ops, startup,
          restarts, badge, popup, loadSnap, view, msgs, acks, events,
          clicks, installed, hist, settings, prefs, sevents, debounceRef,
          alarms, timers, intervalRef>>

\* the popup's settings, their notifications and its pending timeout
uvars == <<settings, prefs, sevents, debounceRef, intervalRef>>

\* ----------------------------------------------------------------- helpers
Max(a, b) == IF a >= b THEN a ELSE b
Min(a, b) == IF a <= b THEN a ELSE b

Rec(d, t, r, s, p) ==
  [duration |-> d, timeRemaining |-> t, isRunning |-> r, startTime |-> s,
   pausedTime |-> p]

DefaultStateAtZero == Rec(DefaultDuration, 0, FALSE, NoTime, 0)

\* the record onInstalled writes, and loadTimerState's fallback
DefaultState == Rec(DefaultDuration, DefaultDuration * SecPerMin, FALSE, NoTime, 0)

ViewOf(s) ==
  [duration |-> s.duration, timeRemaining |-> s.timeRemaining,
   isRunning |-> s.isRunning]

DefaultView == ViewOf(DefaultState)

NoBadge == [num |-> 0, unit |-> ""]

\* the settings record; a field the record lacks is "undefined"
Settings(t, a, b) ==
  [theme |-> t, autoOpenPopupOnComplete |-> a, autoOpenPopup |-> b]

DefaultSettings == Settings("dark", "true", "undefined")

\* useState('dark'), useState(true)
DefaultPrefs == [theme |-> "dark", autoOpenPopup |-> "true"]

updateBadgeRoundsUp(timeRemaining) ==
  IF timeRemaining > 0
  THEN LET mins == (timeRemaining + SecPerMin - 1) \div SecPerMin
           secs == timeRemaining % SecPerMin
       IN IF mins > 1 THEN [num |-> mins, unit |-> "m"]
                      ELSE [num |-> secs, unit |-> "s"]
  ELSE NoBadge

\* the badge text is the number num followed by unit; NoBadge is the text ''
updateBadge(timeRemaining) ==
  IF timeRemaining > 0
  THEN LET mins == timeRemaining \div SecPerMin
           secs == timeRemaining % SecPerMin
       IN IF mins > 0 THEN [num |-> mins, unit |-> "m"]
                      ELSE [num |-> secs, unit |-> "s"]
  ELSE NoBadge

timeElapsedRoundsUp(t1, t0) == (t1 - t0 + MsPerSec - 1) \div MsPerSec

\* Math.floor((Date.now() - state.startTime) / 1000)
timeElapsed(t1, t0) == (t1 - t0) \div MsPerSec

\* Math.max(0, state.timeRemaining - timeElapsed)
actualTimeRemaining(r, t1, t0) == Max(0, r - timeElapsed(t1, t0))

\* handleStorageChange: the view takes the three fields of newValue
handleStorageChange(v, newState) ==
  [v EXCEPT !.timeRemaining = newState.timeRemaining,
            !.isRunning = newState.isRunning,
            !.duration = newState.duration]

\* storage.onChanged for a write of record n: queued for the popup when it
\* listens and the value changed; a full queue first delivers its head.
Listening == popup # "closed"
Fires(n) == Listening /\ store # <<n>>
EvQ(n) ==
  IF ~Fires(n) THEN events
  ELSE IF Len(events) < MaxEvents THEN Append(events, n)
  ELSE Append(Tail(events), n)
EvV(n) ==
  IF Fires(n) /\ Len(events) >= MaxEvents
  THEN handleStorageChange(view, Head(events)) ELSE view

\* snap and sets are what the call read; user is hist.userAuto at that read
Op(k, v) ==
  [kind |-> k, val |-> v, stage |-> "get", snap |-> <<>>, sets |-> <<>>,
   user |-> ""]
Issue(o) == ops (+) SetToBag({o})
Done(o) == ops (-) SetToBag({o})
Room == BagCardinality(ops) < MaxPending
Pending(k) == {o \in BagToSet(ops) : o.kind = k}

\* history: starts = runs begun by start(); V, T = start value and timestamp
\* of the last one; notes = 'Timer Complete!' notifications emitted;
\* alarm = progress of the last alarm firing; cut = a stop, reset or
\* quick-select followed the last start; halted = a stop or reset has been
\* written and no popup action followed; resets = reset writes applied in a
\* row, each after the first on the record the one before left
\* open = what the last alarm callback did about chrome.action.openPopup;
\* userAuto = the auto-open choice the user made last ("true" at install);
\* zero = the last start() found timeRemaining = 0 in its view;
\* wait = the start, stop or reset the popup did last, while no success
\* acknowledgement of it has been received and no other user action followed;
\* typed = keystrokes in the custom-duration input so far; keys = the
\* accepted values of the current burst of keystrokes (a burst begins with a
\* keystroke made while no timeout is pending), firstAt and keyAt the times
\* of its first and last one, rapid = each followed the one before by less
\* than 300 ms; ran = debounce callbacks run so far; wrote = the duration and
\* timeRemaining the callbacks of this burst wrote; failed = start() calls
\* whose storage write was rejected; toggled = the settings toggle the user
\* clicked last; blurred = the input lost the focus less than 300 ms after
\* the last accepted keystroke and none has followed; readFails = rejected
\* storage reads of loadTimerState
NoHist == [starts |-> 0, V |-> 0, T |-> NoTime, notes |-> 0, alarm |-> "no",
           cut |-> FALSE, halted |-> FALSE, resets |-> 0, open |-> "none",
           userAuto |-> "true", zero |-> FALSE, wait |-> "none",
           typed |-> 0, keys |-> <<>>, firstAt |-> NoTime, keyAt |-> NoTime,
           rapid |-> TRUE, ran |-> 0, wrote |-> <<>>, failed |-> 0,
           toggled |-> "none", blurred |-> FALSE,
           readFails |-> 0]

\* -------------------------------------------------------------------- Init
Init ==
  /\ now = ClockStart
  /\ clock = 0
  /\ store \in {<<>>} \cup
       {<<Rec(1, r, FALSE, NoTime, 0)>> : r \in InitRemaining}
  /\ alarmAt = NoAlarm
  /\ worker = TRUE
  /\ updateInterval = <<>>
  /\ ops = EmptyBag
  /\ startup = FALSE
  /\ restarts = 0
  /\ badge = NoBadge
  /\ popup = "closed"
  /\ loadSnap = <<>>
  /\ view = DefaultView
  /\ msgs = <<>>
  /\ acks = <<>>
  /\ events = <<>>
  /\ clicks = 0
  /\ installed = (store # <<>>)
  /\ hist = NoHist
  /\ settings = IF store # <<>> THEN <<DefaultSettings>> ELSE <<>>
  /\ prefs = DefaultPrefs
  /\ sevents = <<>>
  /\ debounceRef = <<>>
  /\ intervalRef = <<>>
  /\ alarms = 0
  /\ timers = 0

\* ------------------------------------------------------------------- clock
Tick ==
  /\ installed
  /\ clock < MaxClock
  /\ clock' = clock + 1
  /\ now' = now + ClockStep
  /\ UNCHANGED <<store, alarmAt, alarms, worker, updateInterval, timers, ops, startup,
                 restarts, badge, popup, loadSnap, view, msgs, acks, events,
                 clicks, installed, hist>>
  /\ UNCHANGED uvars

\* the write of record n by chrome.storage.sync.set, with its onChanged
Write(n) ==
  /\ store' = <<n>>
  /\ events' = EvQ(n)
  /\ view' = EvV(n)

\* handleStorageChange, changes.settings
handleSettingsChange(p, newSettings) ==
  [p EXCEPT !.theme = newSettings.theme,
            !.autoOpenPopup = newSettings.autoOpenPopupOnComplete]

\* storage.onChanged for a write of the settings record n, as for Write
SFires(n) == Listening /\ settings # <<n>>
SEvQ(n) ==
  IF ~SFires(n) THEN sevents
  ELSE IF Len(sevents) < MaxEvents THEN Append(sevents, n)
  ELSE Append(Tail(sevents), n)
SEvP(n) ==
  IF SFires(n) /\ Len(sevents) >= MaxEvents
  THEN handleSettingsChange(prefs, Head(sevents)) ELSE prefs

\* the write of the settings record n
SettingsWrite(n) ==
  /\ settings' = <<n>>
  /\ sevents' = SEvQ(n)

\* timerUtils.saveSettings: chrome.storage.sync.set({ settings })
saveSettings(updatedSettings) == SettingsWrite(updatedSettings)

\* timerUtils.loadSettings: the stored settings, or the defaults
loadSettings(s) == IF s # <<>> THEN s[1] ELSE DefaultSettings


\* ------------------------------------------------------- background worker
updateTimerPeriodicallyNoClear(initialTime) ==
  /\ updateInterval' = <<[timeRemaining |-> initialTime, nextAt |-> now + MsPerSec]>>
  /\ timers' = timers + 1

\* clearInterval of the existing interval, then setInterval
updateTimerPeriodically(initialTime) ==
  /\ updateInterval' = <<[timeRemaining |-> initialTime, nextAt |-> now + MsPerSec]>>
  /\ timers' = (IF updateInterval # <<>> THEN timers - 1 ELSE timers) + 1

startBackgroundAlarmOnly(timeRemaining) ==
  /\ alarmAt' = now + (timeRemaining * MsPerSec)
  /\ alarms' = 1
  /\ UNCHANGED <<updateInterval, timers>>

\* chrome.alarms.clear(ALARM_NAME) removes the alarms of that name,
\* chrome.alarms.create adds one
startBackgroundAlarm(timeRemaining) ==
  /\ alarmAt' = now + (timeRemaining * MsPerSec)
  /\ alarms' = 0 + 1
  /\ updateTimerPeriodically(timeRemaining)

clearBackgroundAlarm == alarmAt' = NoAlarm /\ alarms' = 0

keepTimerUpdates == UNCHANGED <<updateInterval, timers>>

\* clearInterval(updateInterval), updateInterval = null
stopTimerUpdates ==
  /\ updateInterval' = <<>>
  /\ timers' = IF updateInterval # <<>> THEN timers - 1 ELSE timers

\* chrome.runtime.onInstalled
Install ==
  /\ ~installed
  /\ worker
  /\ installed' = TRUE
  /\ Write(DefaultState)
  /\ SettingsWrite(DefaultSettings)
  /\ prefs' = SEvP(DefaultSettings)
  /\ UNCHANGED <<intervalRef, now, clock, alarmAt, alarms, worker, updateInterval, timers, ops, startup,
                 restarts, badge, popup, loadSnap, msgs, acks, clicks, hist,
                 debounceRef>>

\* the host suspends or kills the worker: module state and callbacks are lost
WorkerStop ==
  /\ installed
  /\ worker
  /\ restarts < MaxRestarts
  /\ worker' = FALSE
  /\ updateInterval' = <<>>
  /\ timers' = 0
  /\ ops' = EmptyBag
  /\ startup' = FALSE
  /\ hist' = [hist EXCEPT !.alarm = IF @ = "fired" THEN "no" ELSE @]
  /\ UNCHANGED <<now, clock, store, alarmAt, alarms, restarts, badge, popup, loadSnap,
                 view, msgs, acks, events, clicks, installed>>
  /\ UNCHANGED uvars

\* the worker script is loaded again: "Initialize on first load"
WorkerLoad ==
  /\ ~worker
  /\ worker' = TRUE
  /\ restarts' = restarts + 1
  /\ ops' = Issue(Op("init", 0))
  /\ \E b \in BOOLEAN : startup' = b
  /\ UNCHANGED <<now, clock, store, alarmAt, alarms, updateInterval, timers, badge, popup,
                 loadSnap, view, msgs, acks, events, clicks, installed, hist>>
  /\ UNCHANGED uvars

\* chrome.runtime.onStartup
OnStartup ==
  /\ worker
  /\ startup
  /\ Room
  /\ startup' = FALSE
  /\ ops' = Issue(Op("init", 0))
  /\ UNCHANGED <<now, clock, store, alarmAt, alarms, worker, updateInterval, timers, restarts,
                 badge, popup, loadSnap, view, msgs, acks, events, clicks,
                 installed, hist>>
  /\ UNCHANGED uvars

\* the storage service answers a pending chrome.storage.sync.get
StorageRead ==
  \E o \in BagToSet(ops) :
    /\ o.stage = "get"
    /\ ops' = Done(o) (+)
         SetToBag({[o EXCEPT !.stage = "cb", !.snap = store,
                             !.sets = IF o.kind = "alarm" THEN settings ELSE <<>>,
                             !.user = IF o.kind = "alarm" THEN hist.userAuto
                                      ELSE ""]})
    /\ UNCHANGED <<now, clock, store, alarmAt, alarms, worker, updateInterval, timers, startup,
                   restarts, badge, popup, loadSnap, view, msgs, acks, events,
                   clicks, installed, hist>>
    /\ UNCHANGED uvars

runInFlightAlsoAtZero(snap) == snap # <<>> /\ snap[1].isRunning

\* state && state.isRunning && state.timeRemaining > 0
runInFlight(snap) ==
  snap # <<>> /\ snap[1].isRunning /\ snap[1].timeRemaining > 0

\* initializeTimer, after its await
InitContinue ==
  \E o \in Pending("init") :
    /\ o.stage = "cb"
    /\ ops' = Done(o)
    /\ IF runInFlight(o.snap)
       THEN LET state == o.snap[1]
                a == actualTimeRemaining(state.timeRemaining, now, state.startTime)
            IN IF a > 0
               THEN /\ Write([state EXCEPT !.timeRemaining = a])
                    /\ startBackgroundAlarm(a)
                    /\ badge' = updateBadge(a)
                    /\ hist' = [hist EXCEPT !.alarm = "no"]
               ELSE /\ Write([state EXCEPT !.isRunning = FALSE,
                                           !.timeRemaining = 0])
                    /\ hist' = [hist EXCEPT !.notes = @ + 1, !.alarm = "no"]
                    /\ badge' = updateBadge(0)
                    /\ UNCHANGED <<alarmAt, alarms, updateInterval, timers>>
       ELSE UNCHANGED <<store, events, view, alarmAt, alarms, updateInterval, timers, badge, hist>>
    /\ UNCHANGED <<now, clock, worker, startup, restarts, popup, loadSnap, msgs,
                   acks, clicks, installed>>
    /\ UNCHANGED uvars

\* the setInterval callback of updateTimerPeriodically
IntervalTick ==
  /\ worker
  /\ updateInterval # <<>>
  /\ now >= updateInterval[1].nextAt
  /\ Room
  /\ LET timeRemaining == updateInterval[1].timeRemaining - 1
     IN /\ badge' = updateBadge(timeRemaining)
        /\ ops' = Issue(Op("tick", timeRemaining))
        /\ updateInterval' =
             IF timeRemaining <= 0 THEN <<>>
             ELSE <<[timeRemaining |-> timeRemaining,
                     nextAt |-> updateInterval[1].nextAt + MsPerSec]>>
        /\ timers' = IF timeRemaining <= 0 THEN timers - 1 ELSE timers
  /\ UNCHANGED <<now, clock, store, alarmAt, alarms, worker, startup, restarts, popup,
                 loadSnap, view, msgs, acks, events, clicks, installed, hist>>
  /\ UNCHANGED uvars

\* the storage callback of a tick
TickCallback ==
  \E o \in Pending("tick") :
    /\ o.stage = "cb"
    /\ ops' = Done(o)
    /\ IF o.snap # <<>>
       THEN Write([o.snap[1] EXCEPT !.timeRemaining = o.val])
       ELSE UNCHANGED <<store, events, view>>
    /\ UNCHANGED <<now, clock, alarmAt, alarms, worker, updateInterval, timers, startup,
                   restarts, badge, popup, loadSnap, msgs, acks, clicks,
                   installed, hist>>
    /\ UNCHANGED uvars

\* chrome.alarms.onAlarm
AlarmFire ==
  /\ worker
  /\ alarmAt # NoAlarm
  /\ now >= alarmAt
  /\ Room
  /\ alarmAt' = NoAlarm
  /\ alarms' = alarms - 1
  /\ stopTimerUpdates
  /\ ops' = Issue(Op("alarm", 0))
  /\ badge' = updateBadge(0)
  /\ hist' = [hist EXCEPT !.alarm = "fired"]
  /\ UNCHANGED <<now, clock, store, worker, startup, restarts, popup, loadSnap,
                 view, msgs, acks, events, clicks, installed>>
  /\ UNCHANGED uvars

\* result.settings || {}, then settings.autoOpenPopupOnComplete !== false
autoOpens(sets) ==
  sets = <<>> \/ sets[1].autoOpenPopupOnComplete # "false"

\* the storage callback of the alarm handler.  chrome.action.openPopup()
\* either rejects, which is swallowed and changes nothing, or resolves, and
\* the popup then opens as in PopupOpen.
AlarmCallback ==
  \E o \in Pending("alarm") :
    /\ o.stage = "cb"
    /\ ops' = Done(o)
    /\ IF o.snap # <<>>
       THEN Write([o.snap[1] EXCEPT !.isRunning = FALSE, !.timeRemaining = 0])
       ELSE UNCHANGED <<store, events, view>>
    /\ hist' = [hist EXCEPT !.notes = @ + 1,
                            !.alarm = IF @ = "fired" THEN "done" ELSE @,
                            !.open = IF autoOpens(o.sets) THEN "attempt"
                                     ELSE "skip"]
    /\ UNCHANGED <<now, clock, alarmAt, alarms, worker, updateInterval, timers, startup,
                   restarts, badge, popup, loadSnap, msgs, acks, clicks,
                   installed>>
    /\ UNCHANGED uvars

RespondIfStored(m) ==
  acks' = IF m.live /\ store # <<>> THEN Append(acks, m) ELSE acks

\* sendResponse({ success: true }); it reaches the popup if that is still open
Respond(m) == acks' = IF m.live THEN Append(acks, m) ELSE acks

MessageActions == {"startTimer", "stopTimer", "resetTimer"}

\* chrome.runtime.onMessage, any other action: no branch of the listener runs
OnOtherMessage ==
  /\ worker
  /\ msgs # <<>>
  /\ Head(msgs).action \notin MessageActions
  /\ msgs' = Tail(msgs)
  /\ UNCHANGED <<now, clock, store, alarmAt, alarms, worker, updateInterval,
                 timers, ops, startup, restarts, badge, popup, loadSnap, view,
                 acks, events, clicks, installed, hist>>
  /\ UNCHANGED uvars

\* chrome.runtime.onMessage, action 'startTimer'
OnStartTimer ==
  /\ worker
  /\ msgs # <<>>
  /\ Head(msgs).action = "startTimer"
  /\ msgs' = Tail(msgs)
  /\ startBackgroundAlarm(Head(msgs).timeRemaining)
  /\ Respond(Head(msgs))
  /\ hist' = [hist EXCEPT !.alarm = "no"]
  /\ UNCHANGED <<now, clock, store, worker, ops, startup, restarts, badge,
                 popup, loadSnap, view, events, clicks, installed>>
  /\ UNCHANGED uvars

\* chrome.runtime.onMessage, action 'stopTimer'
OnStopTimer ==
  /\ worker
  /\ msgs # <<>>
  /\ Head(msgs).action = "stopTimer"
  /\ Room
  /\ msgs' = Tail(msgs)
  /\ clearBackgroundAlarm
  /\ stopTimerUpdates
  /\ ops' = Issue(Op("stop", 0))
  /\ Respond(Head(msgs))
  /\ hist' = [hist EXCEPT !.alarm = "no", !.cut = TRUE]
  /\ UNCHANGED <<now, clock, store, worker, startup, restarts, badge, popup,
                 loadSnap, view, events, clicks, installed>>
  /\ UNCHANGED uvars

StopCallback ==
  \E o \in Pending("stop") :
    /\ o.stage = "cb"
    /\ ops' = Done(o)
    /\ IF o.snap # <<>>
       THEN /\ Write([o.snap[1] EXCEPT !.isRunning = FALSE])
            /\ hist' = [hist EXCEPT !.alarm = "no", !.halted = TRUE]
       ELSE UNCHANGED <<store, events, view, hist>>
    /\ UNCHANGED <<now, clock, alarmAt, alarms, worker, updateInterval, timers, startup,
                   restarts, badge, popup, loadSnap, msgs, acks, clicks,
                   installed>>
    /\ UNCHANGED uvars

\* chrome.runtime.onMessage, action 'resetTimer'
OnResetTimer ==
  /\ worker
  /\ msgs # <<>>
  /\ Head(msgs).action = "resetTimer"
  /\ Room
  /\ msgs' = Tail(msgs)
  /\ clearBackgroundAlarm
  /\ stopTimerUpdates
  /\ ops' = Issue(Op("reset", 0))
  /\ Respond(Head(msgs))
  /\ hist' = [hist EXCEPT !.alarm = "no", !.cut = TRUE]
  /\ UNCHANGED <<now, clock, store, worker, startup, restarts, badge, popup,
                 loadSnap, view, events, clicks, installed>>
  /\ UNCHANGED uvars

resetRecordFromRemaining(state) ==
  [state EXCEPT !.isRunning = FALSE,
                !.timeRemaining = state.timeRemaining * SecPerMin]

\* the record written by the resetTimer callback
resetRecord(state) ==
  [state EXCEPT !.isRunning = FALSE,
                !.timeRemaining = state.duration * SecPerMin]

\* not running, at full duration
AtFullDuration(s) == ~s.isRunning /\ s.timeRemaining = s.duration * SecPerMin

ResetCallback ==
  \E o \in Pending("reset") :
    /\ o.stage = "cb"
    /\ ops' = Done(o)
    /\ IF o.snap # <<>>
       THEN /\ Write(resetRecord(o.snap[1]))
            /\ badge' = updateBadge(o.snap[1].duration * SecPerMin)
            /\ hist' = [hist EXCEPT
                          !.alarm = "no", !.halted = TRUE,
                          !.resets = IF /\ @ >= 1
                                        /\ o.snap = store
                                        /\ AtFullDuration(store[1])
                                     THEN @ + 1 ELSE 1]
       ELSE UNCHANGED <<store, events, view, badge, hist>>
    /\ UNCHANGED <<now, clock, alarmAt, alarms, worker, updateInterval, timers, startup,
                   restarts, popup, loadSnap, msgs, acks, clicks, installed>>
    /\ UNCHANGED uvars

\* ------------------------------------------------------------------- popup
Msg(a, t, c) == [action |-> a, timeRemaining |-> t, cb |-> c, live |-> TRUE]

\* calculateTimeFromAngle, for an angle in whole degrees:
\* Math.round(x) is floor(x + 1/2)
calculateTimeFromAngle(angle, maxMinutes) ==
  LET normalizedAngle == IF angle < 0 THEN angle + 360 ELSE angle
      minutes == (2 * normalizedAngle * maxMinutes + 360) \div 720
  IN Max(0, Min(maxMinutes, minutes))

\* the popup is opened: useState defaults, listener registered, loadState
\* has read the store
PopupOpen ==
  /\ installed
  /\ popup = "closed"
  /\ clicks < MaxClicks
  /\ clicks' = clicks + 1
  /\ popup' = "loading"
  /\ loadSnap' = store
  /\ view' = DefaultView
  /\ prefs' = DefaultPrefs
  /\ UNCHANGED <<intervalRef, now, clock, store, alarmAt, alarms, worker, updateInterval, timers, ops,
                 startup, restarts, badge, msgs, acks, events, installed, hist,
                 settings, sevents, debounceRef>>

loadTimerStateKeepsOnError(ok, result) ==
  IF result # <<>> THEN result[1] ELSE DefaultState

\* timerUtils.loadTimerState: ok = the storage read resolved, result = the
\* pomodoroState it returned (<<>> for none); the catch block returns the
\* defaults
loadTimerState(ok, result) ==
  IF ok THEN (IF result # <<>> THEN result[1] ELSE DefaultState)
  ELSE DefaultState

\* loadState after its awaits; loadTimerState falls back to the defaults.
\* Only this popup's toggles write the settings once the extension is
\* installed, and they wait for loadState, so the record loadSettings reads
\* is the stored one; a notification queued meanwhile is applied after it.
loadStateAfter(ok) ==
  /\ popup = "loading"
  /\ popup' = "open"
  /\ view' = ViewOf(loadTimerState(ok, loadSnap))
  /\ loadSnap' = <<>>
  /\ prefs' = [theme |-> loadSettings(settings).theme,
               autoOpenPopup |-> loadSettings(settings).autoOpenPopupOnComplete]
  /\ hist' = IF ok THEN hist ELSE [hist EXCEPT !.readFails = @ + 1]
  /\ UNCHANGED <<intervalRef, now, clock, store, alarmAt, alarms, worker, updateInterval, timers, ops,
                 startup, restarts, badge, msgs, acks, events, clicks,
                 installed, settings, sevents, debounceRef>>

loadState == loadStateAfter(TRUE)

\* loadState when the storage read of loadTimerState is rejected
loadStateReadFails == loadStateAfter(FALSE)

\* the popup is closed: its callbacks and listener die with it
PopupClose ==
  /\ popup # "closed"
  /\ clicks < MaxClicks
  /\ clicks' = clicks + 1
  /\ popup' = "closed"
  /\ view' = DefaultView
  /\ loadSnap' = <<>>
  /\ acks' = <<>>
  /\ events' = <<>>
  /\ msgs' = [i \in DOMAIN msgs |-> [msgs[i] EXCEPT !.live = FALSE]]
  /\ prefs' = DefaultPrefs
  /\ sevents' = <<>>
  /\ debounceRef' = <<>>
  /\ hist' = [hist EXCEPT !.wait = "none"]
  /\ UNCHANGED <<intervalRef, now, clock, store, alarmAt, alarms, worker, updateInterval, timers, ops,
                 startup, restarts, badge, installed, settings>>

\* chrome.storage.onChanged reaches the popup
DeliverEvent ==
  /\ events # <<>>
  /\ events' = Tail(events)
  /\ view' = handleStorageChange(view, Head(events))
  /\ UNCHANGED <<now, clock, store, alarmAt, alarms, worker, updateInterval, timers, ops,
                 startup, restarts, badge, popup, loadSnap, msgs, acks, clicks,
                 installed, hist>>
  /\ UNCHANGED uvars

\* the response callbacks of sendMessage
RecvAck ==
  /\ acks # <<>>
  /\ acks' = Tail(acks)
  /\ LET a == Head(acks)
     IN view' =
          CASE a.action = "startTimer" ->
                 [view EXCEPT !.timeRemaining = a.cb, !.isRunning = TRUE]
            [] a.action = "stopTimer" ->
                 [view EXCEPT !.isRunning = FALSE]
            [] a.action = "resetTimer" ->
                 [view EXCEPT !.timeRemaining = a.cb * SecPerMin,
                              !.isRunning = FALSE]
  /\ hist' = [hist EXCEPT !.wait = IF msgs = <<>> /\ Len(acks) = 1
                                   THEN "none" ELSE @]
  /\ UNCHANGED <<now, clock, store, alarmAt, alarms, worker, updateInterval, timers, ops,
                 startup, restarts, badge, popup, loadSnap, msgs, events,
                 clicks, installed>>
  /\ UNCHANGED uvars

\* a message the worker never answers: the response callback runs with no
\* response, so `response && response.success` fails and it sets nothing
MsgFail ==
  /\ msgs # <<>>
  /\ msgs' = Tail(msgs)
  /\ UNCHANGED <<now, clock, store, alarmAt, alarms, worker, updateInterval, timers, ops,
                 startup, restarts, badge, popup, loadSnap, view, acks, events,
                 clicks, installed, hist>>
  /\ UNCHANGED uvars

\* the text of the custom-duration input is a sequence of characters: the
\* digits 0..9, and 10 for any other character
IsDigits(value) == \A i \in DOMAIN value : value[i] \in 0..9

RECURSIVE parseInt(_)
\* parseInt(value, 10) of a string of digits; NaN for the empty string
parseInt(value) ==
  IF value = <<>> THEN NaN
  ELSE IF Len(value) = 1 THEN value[1]
  ELSE 10 * parseInt(SubSeq(value, 1, Len(value) - 1)) + value[Len(value)]

InRangeFromZero(minutes) == minutes >= 0 /\ minutes <= MaxCustom

\* minutes >= 1 && minutes <= 180
InRange(minutes) == minutes >= MinCustom /\ minutes <= MaxCustom

keepTimeout(q) == q

\* clearTimeout(debounceRef.current): the timeout set last, if still pending
clearTimeout(q) == IF q # <<>> THEN SubSeq(q, 1, Len(q) - 1) ELSE q

blurKeepsTimeout == UNCHANGED debounceRef

\* onBlur of the custom-duration input; using any other control of the popup
\* takes the focus from the input
handleCustomDurationBlur == debounceRef' = clearTimeout(debounceRef)

\* onChange of the custom-duration input, which is disabled while running
handleCustomDurationChange ==
  \E value \in CustomInputs :
    /\ popup = "open"
    /\ ~view.isRunning
    /\ hist.typed < MaxKeys
    /\ IF value = <<>> \/ IsDigits(value)
       THEN /\ debounceRef' =
                 Append(clearTimeout(debounceRef),
                        [value |-> value, dueAt |-> now + DebounceMs])
            /\ hist' = IF debounceRef # <<>>
                       THEN [hist EXCEPT
                               !.typed = @ + 1,
                               !.keys = Append(@, value),
                               !.keyAt = now,
                               !.rapid = @ /\ now - hist.keyAt < DebounceMs,
                               !.blurred = FALSE]
                       ELSE [hist EXCEPT
                               !.typed = @ + 1, !.keys = <<value>>,
                               !.firstAt = now, !.keyAt = now,
                               !.rapid = TRUE, !.wrote = <<>>,
                               !.blurred = FALSE]
       ELSE /\ hist' = [hist EXCEPT !.typed = @ + 1]
            /\ UNCHANGED debounceRef
    /\ UNCHANGED <<intervalRef, now, clock, store, alarmAt, alarms, worker, updateInterval,
                   timers, ops, startup, restarts, badge, popup, loadSnap,
                   view, msgs, acks, events, clicks, installed, settings,
                   prefs, sevents>>

\* the setTimeout callback of handleCustomDurationChange
DebounceFire ==
  \E i \in DOMAIN debounceRef :
    /\ now >= debounceRef[i].dueAt
    /\ debounceRef' =
         [j \in 1..(Len(debounceRef) - 1) |->
            IF j < i THEN debounceRef[j] ELSE debounceRef[j + 1]]
    /\ LET minutes == parseInt(debounceRef[i].value)
           n == Rec(minutes, minutes * SecPerMin, FALSE, NoTime, 0)
       IN IF InRange(minutes)
          THEN /\ store' = <<n>>
               /\ events' = EvQ(n)
               /\ view' = [EvV(n) EXCEPT !.duration = minutes,
                                         !.timeRemaining = minutes * SecPerMin]
               /\ hist' = [hist EXCEPT !.ran = @ + 1,
                                       !.wrote = Append(@, <<n.duration,
                                                             n.timeRemaining>>)]
          ELSE /\ hist' = [hist EXCEPT !.ran = @ + 1]
               /\ UNCHANGED <<store, events, view>>
    /\ UNCHANGED <<intervalRef, now, clock, alarmAt, alarms, worker, updateInterval, timers,
                   ops, startup, restarts, badge, popup, loadSnap, msgs, acks,
                   clicks, installed, settings, prefs, sevents>>

\* the input loses the focus with no other control being used
Blur ==
  /\ popup = "open"
  /\ debounceRef # <<>>
  /\ handleCustomDurationBlur
  /\ hist' = [hist EXCEPT !.blurred = @ \/ now < hist.keyAt + DebounceMs]
  /\ UNCHANGED <<intervalRef, now, clock, store, alarmAt, alarms, worker, updateInterval,
                 timers, ops, startup, restarts, badge, popup, loadSnap, view,
                 msgs, acks, events, clicks, installed, settings, prefs,
                 sevents>>

\* time passes in steps shorter than the debounce delay
TickFine ==
  /\ installed
  /\ now + FineStep <= ClockStart + FineSpan
  /\ now' = now + FineStep
  /\ UNCHANGED <<clock, store, alarmAt, alarms, worker, updateInterval, timers,
                 ops, startup, restarts, badge, popup, loadSnap, view, msgs,
                 acks, events, clicks, installed, hist>>
  /\ UNCHANGED uvars

\* chrome.storage.onChanged of the settings reaches the popup
DeliverSettings ==
  /\ sevents # <<>>
  /\ sevents' = Tail(sevents)
  /\ prefs' = handleSettingsChange(prefs, Head(sevents))
  /\ UNCHANGED <<intervalRef, now, clock, store, alarmAt, alarms, worker, updateInterval,
                 timers, ops, startup, restarts, badge, popup, loadSnap, view,
                 msgs, acks, events, clicks, installed, hist, settings,
                 debounceRef>>

\* !autoOpenPopup, the state being true, false or undefined
Negate(b) == IF b = "true" THEN "false" ELSE "true"

\* builds { theme: newTheme, autoOpenPopup } and saves it
toggleTheme ==
  /\ popup = "open"
  /\ clicks < MaxClicks
  /\ clicks' = clicks + 1
  /\ LET newTheme == IF prefs.theme = "dark" THEN "light" ELSE "dark"
         updatedSettings == Settings(newTheme, "undefined", prefs.autoOpenPopup)
     IN /\ prefs' = [SEvP(updatedSettings) EXCEPT !.theme = newTheme]
        /\ saveSettings(updatedSettings)
  /\ handleCustomDurationBlur
  /\ hist' = [hist EXCEPT !.wait = "none", !.toggled = "theme"]
  /\ UNCHANGED <<intervalRef, now, clock, store, alarmAt, alarms, worker, updateInterval,
                 timers, ops, startup, restarts, badge, popup, loadSnap, view,
                 msgs, acks, events, installed>>

\* builds { theme, autoOpenPopupOnComplete: !autoOpenPopup } and saves it
toggleAutoOpenPopup ==
  /\ popup = "open"
  /\ clicks < MaxClicks
  /\ clicks' = clicks + 1
  /\ LET newAutoOpenPopup == Negate(prefs.autoOpenPopup)
         updatedSettings == Settings(prefs.theme, newAutoOpenPopup, "undefined")
     IN /\ prefs' = [SEvP(updatedSettings) EXCEPT
                       !.autoOpenPopup = newAutoOpenPopup]
        /\ saveSettings(updatedSettings)
        /\ hist' = [hist EXCEPT !.wait = "none",
                                !.userAuto = newAutoOpenPopup,
                                !.toggled = "auto"]
  /\ handleCustomDurationBlur
  /\ UNCHANGED <<intervalRef, now, clock, store, alarmAt, alarms, worker, updateInterval,
                 timers, ops, startup, restarts, badge, popup, loadSnap, view,
                 msgs, acks, events, installed>>

handleCircleClick ==
  \E angle \in Angles :
    /\ popup = "open"
    /\ ~view.isRunning
    /\ clicks < MaxClicks
    /\ clicks' = clicks + 1
    /\ LET maxMinutes == Max(60, view.duration)
           newDuration == calculateTimeFromAngle(angle, maxMinutes)
       IN view' = [view EXCEPT !.duration = newDuration,
                               !.timeRemaining = newDuration * SecPerMin]
    /\ hist' = [hist EXCEPT !.halted = FALSE, !.wait = "none"]
    /\ UNCHANGED <<intervalRef, now, clock, store, alarmAt, alarms, worker, updateInterval, timers, ops,
                   startup, restarts, badge, popup, loadSnap, msgs, acks,
                   events, installed>>
    /\ handleCustomDurationBlur
    /\ UNCHANGED <<settings, prefs, sevents>>

startTimeValueKeepsZero(duration, timeRemaining) == timeRemaining

\* timeRemaining === 0 ? duration * 60 : timeRemaining
startTimeValue(duration, timeRemaining) ==
  IF timeRemaining = 0 THEN duration * SecPerMin ELSE timeRemaining

\* the Start button is rendered while the view is not running
handleStart ==
  /\ popup = "open"
  /\ ~view.isRunning
  /\ ~(view.timeRemaining = 0 /\ view.duration = 0)
  /\ Len(msgs) < MaxMsgs
  /\ clicks < MaxClicks
  /\ clicks' = clicks + 1
  /\ LET v == startTimeValue(view.duration, view.timeRemaining)
     IN /\ Write(Rec(view.duration, v, TRUE, now, 0))
        /\ msgs' = Append(msgs, Msg("startTimer", v, v))
        /\ hist' = [hist EXCEPT !.starts = @ + 1, !.V = v,
                                !.T = now, !.alarm = "no", !.cut = FALSE,
                                !.halted = FALSE, !.resets = 0,
                                !.zero = (view.timeRemaining = 0),
                                !.wait = "startTimer"]
  /\ UNCHANGED <<intervalRef, now, clock, alarmAt, alarms, worker, updateInterval, timers, ops, startup,
                 restarts, badge, popup, loadSnap, acks, installed>>
  /\ handleCustomDurationBlur
  /\ UNCHANGED <<settings, prefs, sevents>>

sendAfterFailedWrite ==
  /\ msgs' = Append(msgs, Msg("startTimer",
                              startTimeValue(view.duration, view.timeRemaining),
                              startTimeValue(view.duration, view.timeRemaining)))
  /\ UNCHANGED <<store, events, view>>

\* the catch block of handleStart: nothing after the rejected await runs
abandonStart == UNCHANGED <<store, events, view, msgs>>

\* handleStart when chrome.storage.sync.set rejects: the write is not applied
handleStartFails ==
  /\ popup = "open"
  /\ ~view.isRunning
  /\ ~(view.timeRemaining = 0 /\ view.duration = 0)
  /\ Len(msgs) < MaxMsgs
  /\ clicks < MaxClicks
  /\ clicks' = clicks + 1
  /\ abandonStart
  /\ hist' = [hist EXCEPT !.failed = @ + 1, !.halted = FALSE,
                          !.wait = "none"]
  /\ UNCHANGED <<intervalRef, now, clock, alarmAt, alarms, worker, updateInterval, timers,
                 ops, startup, restarts, badge, popup, loadSnap, acks,
                 installed>>
  /\ handleCustomDurationBlur
  /\ UNCHANGED <<settings, prefs, sevents>>

\* the Stop button is rendered while the view is running
handleStop ==
  /\ popup = "open"
  /\ view.isRunning
  /\ Len(msgs) < MaxMsgs
  /\ clicks < MaxClicks
  /\ clicks' = clicks + 1
  /\ msgs' = Append(msgs, Msg("stopTimer", 0, 0))
  /\ hist' = [hist EXCEPT !.halted = FALSE, !.wait = "stopTimer"]
  /\ UNCHANGED <<intervalRef, now, clock, store, alarmAt, alarms, worker, updateInterval, timers, ops,
                 startup, restarts, badge, popup, loadSnap, view, acks, events,
                 installed>>
  /\ handleCustomDurationBlur
  /\ UNCHANGED <<settings, prefs, sevents>>

handleReset ==
  /\ popup = "open"
  /\ Len(msgs) < MaxMsgs
  /\ clicks < MaxClicks
  /\ clicks' = clicks + 1
  /\ msgs' = Append(msgs, Msg("resetTimer", 0, view.duration))
  /\ hist' = [hist EXCEPT !.halted = FALSE, !.wait = "resetTimer"]
  /\ UNCHANGED <<intervalRef, now, clock, store, alarmAt, alarms, worker, updateInterval, timers, ops,
                 startup, restarts, badge, popup, loadSnap, view, acks, events,
                 installed>>
  /\ handleCustomDurationBlur
  /\ UNCHANGED <<settings, prefs, sevents>>

\* onClick of a quick-select button; the button is disabled while running
QuickSelect ==
  \E mins \in QuickInputs :
    /\ popup = "open"
    /\ ~view.isRunning
    /\ clicks < MaxClicks
    /\ clicks' = clicks + 1
    /\ LET n == Rec(mins, mins * SecPerMin, FALSE, NoTime, 0)
       IN /\ store' = <<n>>
          /\ events' = EvQ(n)
          /\ view' = [EvV(n) EXCEPT !.duration = mins,
                                    !.timeRemaining = mins * SecPerMin]
    /\ hist' = [hist EXCEPT !.alarm = "no", !.cut = TRUE, !.halted = FALSE,
                            !.resets = 0, !.wait = "none"]
    /\ UNCHANGED <<intervalRef, now, clock, alarmAt, alarms, worker, updateInterval, timers, ops, startup,
                   restarts, badge, popup, loadSnap, msgs, acks, installed>>
    /\ handleCustomDurationBlur
    /\ UNCHANGED <<settings, prefs, sevents>>

\* -------------------------------------------------------------------- Next
Next ==
  \/ Tick
  \/ Install
  \/ WorkerStop
  \/ WorkerLoad
  \/ OnStartup
  \/ StorageRead
  \/ InitContinue
  \/ IntervalTick
  \/ TickCallback
  \/ AlarmFire
  \/ AlarmCallback
  \/ OnStartTimer
  \/ OnStopTimer
  \/ StopCallback
  \/ OnResetTimer
  \/ ResetCallback
  \/ PopupOpen
  \/ loadState
  \/ PopupClose
  \/ DeliverEvent
  \/ RecvAck
  \/ handleCircleClick
  \/ handleStart
  \/ handleStop
  \/ handleReset
  \/ QuickSelect

Spec == Init /\ [][Next]_vars

TypeOK ==
  /\ worker \in BOOLEAN
  /\ Len(store) <= 1
  /\ BagCardinality(ops) <= MaxPending

\* ------------------------------------------ the popup with a silent worker
\* The extension is installed and no message of the popup is answered.
InitSilent == Init /\ installed

NextSilent ==
  \/ PopupOpen
  \/ loadState
  \/ PopupClose
  \/ DeliverEvent
  \/ handleCircleClick
  \/ handleStart
  \/ handleStop
  \/ handleReset
  \/ QuickSelect
  \/ MsgFail

SpecSilent == InitSilent /\ [][NextSilent]_vars

\* ------------------------------------------- one run, with the settings
\* A run of R seconds has just been started (start() has written the record,
\* the worker has handled startTimer) and the popup has been closed; the user
\* reopens it and changes the settings while the run goes on to its alarm.
InitSettings ==
  /\ now = ClockStart
  /\ clock = 0
  /\ \E R \in 1..MaxClock :
       /\ store = <<Rec(1, R, TRUE, ClockStart, 0)>>
       /\ alarmAt = ClockStart + R * MsPerSec
       /\ updateInterval =
            <<[timeRemaining |-> R, nextAt |-> ClockStart + MsPerSec]>>
       /\ hist = [NoHist EXCEPT !.starts = 1, !.V = R, !.T = ClockStart]
  /\ alarms = 1
  /\ timers = 1
  /\ worker = TRUE
  /\ ops = EmptyBag
  /\ startup = FALSE
  /\ restarts = 0
  /\ badge = NoBadge
  /\ popup = "closed"
  /\ loadSnap = <<>>
  /\ view = DefaultView
  /\ msgs = <<>>
  /\ acks = <<>>
  /\ events = <<>>
  /\ clicks = 0
  /\ installed = TRUE
  /\ settings = <<DefaultSettings>>
  /\ prefs = DefaultPrefs
  /\ sevents = <<>>
  /\ debounceRef = <<>>
  /\ intervalRef = <<>>

NextSettings ==
  \/ Tick
  \/ PopupOpen
  \/ loadState
  \/ PopupClose
  \/ DeliverEvent
  \/ DeliverSettings
  \/ toggleTheme
  \/ toggleAutoOpenPopup
  \/ IntervalTick
  \/ StorageRead
  \/ TickCallback
  \/ AlarmFire
  \/ AlarmCallback

SpecSettings == InitSettings /\ [][NextSettings]_vars

\* ----------------------------------- the custom-duration input on its own
\* The popup with its custom-duration input, time passing in steps shorter
\* than the debounce delay, and a worker that answers nothing.
NextInput ==
  \/ TickFine
  \/ PopupOpen
  \/ loadState
  \/ PopupClose
  \/ DeliverEvent
  \/ handleCustomDurationChange
  \/ DebounceFire
  \/ Blur
  \/ QuickSelect

SpecInput == InitSilent /\ [][NextInput]_vars

\* ------------------------------------------------- the popup at the controls
\* The popup is open and has loaded the stored record; the user works its
\* controls and the worker handles the messages.  The storage write of
\* start() may be rejected.  No time passes.
InitPopup ==
  /\ now = ClockStart
  /\ clock = 0
  /\ store \in {<<Rec(1, r, FALSE, NoTime, 0)>> : r \in InitRemaining}
  /\ alarmAt = NoAlarm
  /\ alarms = 0
  /\ updateInterval = <<>>
  /\ timers = 0
  /\ worker = TRUE
  /\ ops = EmptyBag
  /\ startup = FALSE
  /\ restarts = 0
  /\ badge = NoBadge
  /\ popup = "open"
  /\ loadSnap = <<>>
  /\ view = ViewOf(store[1])
  /\ msgs = <<>>
  /\ acks = <<>>
  /\ events = <<>>
  /\ clicks = 0
  /\ installed = TRUE
  /\ hist = NoHist
  /\ settings = <<DefaultSettings>>
  /\ prefs = DefaultPrefs
  /\ sevents = <<>>
  /\ debounceRef = <<>>
  /\ intervalRef = <<>>

NextPopup ==
  \/ handleCircleClick
  \/ handleStart
  \/ handleStartFails
  \/ handleStop
  \/ handleReset
  \/ QuickSelect
  \/ DeliverEvent
  \/ RecvAck
  \/ OnStartTimer
  \/ OnStopTimer
  \/ OnResetTimer
  \/ StorageRead
  \/ StopCallback
  \/ ResetCallback

SpecPopup == InitPopup /\ [][NextPopup]_vars

\* ---------------------------------------------------- the badge on its own
\* The refresh interval of a run is due with t + 1 seconds left, so that its
\* tick calls updateBadge(t).
InitBadge ==
  /\ now = ClockStart
  /\ clock = 0
  /\ store = <<DefaultState>>
  /\ \E t \in 0..BadgeMax :
       /\ updateInterval = <<[timeRemaining |-> t + 1, nextAt |-> ClockStart]>>
       /\ alarmAt = ClockStart + t * MsPerSec
  /\ timers = 1
  /\ alarms = 1
  /\ worker = TRUE
  /\ ops = EmptyBag
  /\ startup = FALSE
  /\ restarts = 0
  /\ badge = NoBadge
  /\ popup = "closed"
  /\ loadSnap = <<>>
  /\ view = DefaultView
  /\ msgs = <<>>
  /\ acks = <<>>
  /\ events = <<>>
  /\ clicks = 0
  /\ installed = TRUE
  /\ hist = NoHist
  /\ settings = <<DefaultSettings>>
  /\ prefs = DefaultPrefs
  /\ sevents = <<>>
  /\ debounceRef = <<>>
  /\ intervalRef = <<>>

NextBadge == IntervalTick \/ StorageRead \/ TickCallback

SpecBadge == InitBadge /\ [][NextBadge]_vars

\* ------------------------------------------------ the message listener
\* The popup is open and MsgLen or fewer messages are on their way to the
\* worker, of the three actions of the popup or of another one; the record
\* is stored or absent (nothing the extension does removes it, the listener
\* tests for it).
InitMsg ==
  /\ now = ClockStart
  /\ clock = 0
  /\ store \in {<<>>} \cup
       {<<Rec(1, r, b, IF b THEN ClockStart ELSE NoTime, 0)>> :
          r \in InitRemaining, b \in BOOLEAN}
  /\ \E n \in 1..MsgLen :
       msgs \in [1..n -> {Msg(a, 2, 2) : a \in MessageActions \cup {"other"}}]
  /\ alarmAt = NoAlarm
  /\ alarms = 0
  /\ updateInterval = <<>>
  /\ timers = 0
  /\ worker = TRUE
  /\ ops = EmptyBag
  /\ startup = FALSE
  /\ restarts = 0
  /\ badge = NoBadge
  /\ popup = "open"
  /\ loadSnap = <<>>
  /\ view = ViewOf(IF store # <<>> THEN store[1] ELSE DefaultState)
  /\ acks = <<>>
  /\ events = <<>>
  /\ clicks = 0
  /\ installed = (store # <<>>)
  /\ hist = NoHist
  /\ settings = <<DefaultSettings>>
  /\ prefs = DefaultPrefs
  /\ sevents = <<>>
  /\ debounceRef = <<>>
  /\ intervalRef = <<>>

NextMsg ==
  \/ OnStartTimer
  \/ OnStopTimer
  \/ OnResetTimer
  \/ OnOtherMessage
  \/ StorageRead
  \/ StopCallback
  \/ ResetCallback

SpecMsg == InitMsg /\ [][NextMsg]_vars

\* ------------------------------------------------ one run, left to itself
\* A run of R seconds has just been started, as in InitSettings, and the
\* popup stays closed: no stop, reset or new start follows.  The worker may
\* be stopped and loaded again during the run.  A due alarm or a browser
\* start wakes the worker, storage calls are answered and time passes: these
\* steps are weakly fair.  Stopping the worker is not.
InitRun == InitSettings

NextRun ==
  \/ Tick
  \/ WorkerStop
  \/ WorkerLoad
  \/ OnStartup
  \/ StorageRead
  \/ InitContinue
  \/ IntervalTick
  \/ TickCallback
  \/ AlarmFire
  \/ AlarmCallback

FairRun ==
  /\ WF_vars(Tick)
  /\ WF_vars(WorkerLoad)
  /\ WF_vars(OnStartup)
  /\ WF_vars(StorageRead)
  /\ WF_vars(InitContinue)
  /\ WF_vars(IntervalTick)
  /\ WF_vars(TickCallback)
  /\ WF_vars(AlarmFire)
  /\ WF_vars(AlarmCallback)

SpecRun == InitRun /\ [][NextRun]_vars /\ FairRun

\* --------------------------------------------- initializeTimer on its own
\* The worker has just been loaded while the stored record is running with
\* timeRemaining R and startTime T0, and the time is T1 = T0 + delta.
InitFn ==
  /\ \E R \in 1..FnMaxR, delta \in FnDeltas :
       /\ store = <<Rec(1, R, TRUE, ClockStart, 0)>>
       /\ now = ClockStart + delta
       /\ hist = [NoHist EXCEPT !.starts = 1, !.V = R, !.T = ClockStart]
  /\ clock = 0
  /\ alarmAt = NoAlarm
  /\ worker = TRUE
  /\ updateInterval = <<>>
  /\ ops = SetToBag({Op("init", 0)})
  /\ startup = FALSE
  /\ restarts = 0
  /\ badge = NoBadge
  /\ popup = "closed"
  /\ loadSnap = <<>>
  /\ view = DefaultView
  /\ msgs = <<>>
  /\ acks = <<>>
  /\ events = <<>>
  /\ clicks = 0
  /\ installed = TRUE
  /\ settings = <<DefaultSettings>>
  /\ prefs = DefaultPrefs
  /\ sevents = <<>>
  /\ debounceRef = <<>>
  /\ intervalRef = <<>>
  /\ alarms = 0
  /\ timers = 0

NextFn == StorageRead \/ InitContinue

SpecFn == InitFn /\ [][NextFn]_vars

\* ------------------------------------- initializeTimer with no run in flight
\* The worker has just been loaded while no record is stored, or the stored
\* record is not running, or it is running with no time left; the badge
\* shows what an earlier run left.
InitIdle ==
  /\ store \in {<<>>}
       \cup {<<Rec(1, r, FALSE, NoTime, 0)>> : r \in 0..FnMaxR}
       \cup {<<Rec(1, 0, TRUE, ClockStart, 0)>>}
  /\ \E delta \in FnDeltas : now = ClockStart + delta
  /\ badge \in {NoBadge, updateBadge(SecPerMin)}
  /\ hist = NoHist
  /\ clock = 0
  /\ alarmAt = NoAlarm
  /\ worker = TRUE
  /\ updateInterval = <<>>
  /\ ops = SetToBag({Op("init", 0)})
  /\ startup = FALSE
  /\ restarts = 0
  /\ popup = "closed"
  /\ loadSnap = <<>>
  /\ view = DefaultView
  /\ msgs = <<>>
  /\ acks = <<>>
  /\ events = <<>>
  /\ clicks = 0
  /\ installed = (store # <<>>)
  /\ settings = IF store # <<>> THEN <<DefaultSettings>> ELSE <<>>
  /\ prefs = DefaultPrefs
  /\ sevents = <<>>
  /\ debounceRef = <<>>
  /\ intervalRef = <<>>
  /\ alarms = 0
  /\ timers = 0

SpecIdle == InitIdle /\ [][NextFn]_vars

\* ------------------------------------------------- the popup loading
\* The popup has just been opened and the storage read of loadTimerState
\* has been answered, with the stored record or with none (the record is
\* absent until onInstalled has written it), or is rejected.
InitLoad ==
  /\ store \in {<<>>}
       \cup {<<Rec(d, r, b, IF b THEN ClockStart ELSE NoTime, 0)>> :
               d \in {1, DefaultDuration}, r \in 0..FnMaxR, b \in BOOLEAN}
  /\ popup = "loading"
  /\ loadSnap = store
  /\ now = ClockStart
  /\ clock = 0
  /\ alarmAt = NoAlarm
  /\ worker = TRUE
  /\ updateInterval = <<>>
  /\ ops = EmptyBag
  /\ startup = FALSE
  /\ restarts = 0
  /\ badge = NoBadge
  /\ view = DefaultView
  /\ msgs = <<>>
  /\ acks = <<>>
  /\ events = <<>>
  /\ clicks = 0
  /\ installed = (store # <<>>)
  /\ hist = NoHist
  /\ settings = IF store # <<>> THEN <<DefaultSettings>> ELSE <<>>
  /\ prefs = DefaultPrefs
  /\ sevents = <<>>
  /\ debounceRef = <<>>
  /\ intervalRef = <<>>
  /\ alarms = 0
  /\ timers = 0

NextLoad ==
  \/ loadState
  \/ loadStateReadFails
  \/ PopupClose
  \/ PopupOpen

SpecLoad == InitLoad /\ [][NextLoad]_vars

\* ------------------------------- the self-counting popup and its background
\* The earlier pairing: the popup counts the session down with its own
\* setInterval and saves its state on every change; the background starts an
\* interval of its own from initializeTimer.  Neither listens to the other:
\* the popup has no storage.onChanged listener, the background no message
\* listener.  Here view holds the popup's five state fields.

\* the effects after a render with state v: "Save state whenever it changes"
\* and "Timer countdown logic", each run when one of its dependencies changed
legacyEffects(v) ==
  /\ view' = v
  /\ store' = IF v # view THEN <<v>> ELSE store
  /\ badge' = IF v # view THEN updateBadge(v.timeRemaining) ELSE badge
  /\ intervalRef' =
       IF v.isRunning # view.isRunning \/ v.timeRemaining # view.timeRemaining
       THEN IF v.isRunning /\ v.timeRemaining > 0
            THEN <<[nextAt |-> now + MsPerSec]>>
            ELSE <<>>
       ELSE intervalRef

\* the popup is opened: loadState issues its read, then the first render's
\* save effect writes the initial state
legacyMount ==
  /\ popup = "closed"
  /\ clicks < MaxClicks
  /\ clicks' = clicks + 1
  /\ popup' = "loading"
  /\ loadSnap' = store
  /\ view' = DefaultState
  /\ store' = <<DefaultState>>
  /\ badge' = updateBadge(DefaultState.timeRemaining)
  /\ intervalRef' = <<>>
  /\ UNCHANGED <<now, clock, alarmAt, alarms, worker, updateInterval, timers,
                 ops, startup, restarts, msgs, acks, events, installed, hist,
                 settings, prefs, sevents, debounceRef>>

\* loadState, after its await
legacyLoadState ==
  /\ popup = "loading"
  /\ popup' = "open"
  /\ loadSnap' = <<>>
  /\ LET state == loadTimerState(TRUE, loadSnap)
     IN legacyEffects(Rec(state.duration, state.timeRemaining, state.isRunning,
                          state.startTime, state.pausedTime))
  /\ UNCHANGED <<now, clock, alarmAt, alarms, worker, updateInterval, timers,
                 ops, startup, restarts, msgs, acks, events, clicks, installed,
                 hist, settings, prefs, sevents, debounceRef>>

legacyHandleStart ==
  /\ popup = "open"
  /\ ~view.isRunning
  /\ ~(view.timeRemaining = 0 /\ view.duration = 0)
  /\ clicks < MaxClicks
  /\ clicks' = clicks + 1
  /\ legacyEffects([view EXCEPT
                      !.timeRemaining = IF @ = 0 THEN view.duration * SecPerMin
                                        ELSE @,
                      !.isRunning = TRUE,
                      !.startTime = now,
                      !.pausedTime = 0])
  /\ UNCHANGED <<now, clock, alarmAt, alarms, worker, updateInterval, timers,
                 ops, startup, restarts, popup, loadSnap, msgs, acks, events,
                 installed, hist, settings, prefs, sevents, debounceRef>>

legacyHandleStop ==
  /\ popup = "open"
  /\ view.isRunning
  /\ clicks < MaxClicks
  /\ clicks' = clicks + 1
  /\ legacyEffects([view EXCEPT !.isRunning = FALSE])
  /\ UNCHANGED <<now, clock, alarmAt, alarms, worker, updateInterval, timers,
                 ops, startup, restarts, popup, loadSnap, msgs, acks, events,
                 installed, hist, settings, prefs, sevents, debounceRef>>

legacyHandleReset ==
  /\ popup = "open"
  /\ clicks < MaxClicks
  /\ clicks' = clicks + 1
  /\ legacyEffects([view EXCEPT !.isRunning = FALSE,
                                !.timeRemaining = view.duration * SecPerMin,
                                !.startTime = NoTime,
                                !.pausedTime = 0])
  /\ UNCHANGED <<now, clock, alarmAt, alarms, worker, updateInterval, timers,
                 ops, startup, restarts, popup, loadSnap, msgs, acks, events,
                 installed, hist, settings, prefs, sevents, debounceRef>>

\* the callback of the popup's setInterval
legacyCountdown ==
  /\ popup = "open"
  /\ intervalRef # <<>>
  /\ now >= intervalRef[1].nextAt
  /\ IF view.timeRemaining <= 1
     THEN /\ legacyEffects([view EXCEPT !.timeRemaining = 0,
                                        !.isRunning = FALSE])
          /\ hist' = [hist EXCEPT !.notes = @ + 1]
     ELSE /\ legacyEffects([view EXCEPT !.timeRemaining = @ - 1])
          /\ UNCHANGED hist
  /\ UNCHANGED <<now, clock, alarmAt, alarms, worker, updateInterval, timers,
                 ops, startup, restarts, popup, loadSnap, msgs, acks, events,
                 clicks, installed, settings, prefs, sevents, debounceRef>>

\* the popup is closed: the effect's cleanup clears the interval
legacyUnmount ==
  /\ popup # "closed"
  /\ clicks < MaxClicks
  /\ clicks' = clicks + 1
  /\ popup' = "closed"
  /\ view' = DefaultState
  /\ loadSnap' = <<>>
  /\ intervalRef' = <<>>
  /\ UNCHANGED <<now, clock, store, alarmAt, alarms, worker, updateInterval,
                 timers, ops, startup, restarts, badge, msgs, acks, events,
                 installed, hist, settings, prefs, sevents, debounceRef>>

\* clearInterval(timerInterval) if one exists, then setInterval
startBackgroundTimer(initialTime) ==
  /\ updateInterval' =
       <<[timeRemaining |-> initialTime, nextAt |-> now + MsPerSec]>>
  /\ timers' = 1

\* initializeTimer of the interval-based background, after its await
legacyInitializeTimer ==
  \E o \in Pending("init") :
    /\ o.stage = "cb"
    /\ ops' = Done(o)
    /\ IF runInFlight(o.snap)
       THEN LET state == o.snap[1]
                a == actualTimeRemaining(state.timeRemaining, now, state.startTime)
            IN IF a > 0
               THEN /\ store' = <<[state EXCEPT !.timeRemaining = a]>>
                    /\ startBackgroundTimer(a)
                    /\ badge' = updateBadge(a)
                    /\ UNCHANGED hist
               ELSE /\ store' = <<[state EXCEPT !.isRunning = FALSE,
                                                !.timeRemaining = 0]>>
                    /\ hist' = [hist EXCEPT !.notes = @ + 1]
                    /\ badge' = updateBadge(0)
                    /\ UNCHANGED <<updateInterval, timers>>
       ELSE UNCHANGED <<store, updateInterval, timers, badge, hist>>
    /\ UNCHANGED <<now, clock, alarmAt, alarms, worker, startup, restarts,
                   popup, loadSnap, view, msgs, acks, events, clicks, installed>>
    /\ UNCHANGED uvars

\* the callback of the background's setInterval
legacyTimerTick ==
  /\ worker
  /\ updateInterval # <<>>
  /\ now >= updateInterval[1].nextAt
  /\ LET timeRemaining == updateInterval[1].timeRemaining - 1
     IN IF timeRemaining <= 0
        THEN /\ BagCardinality(ops) + 2 <= MaxPending
             /\ ops' = ops (+) SetToBag({Op("tick", timeRemaining)})
                           (+) SetToBag({Op("finish", 0)})
             /\ updateInterval' = <<>>
             /\ timers' = 0
             /\ hist' = [hist EXCEPT !.notes = @ + 1]
             /\ badge' = updateBadge(0)
        ELSE /\ Room
             /\ ops' = Issue(Op("tick", timeRemaining))
             /\ updateInterval' =
                  <<[timeRemaining |-> timeRemaining,
                     nextAt |-> updateInterval[1].nextAt + MsPerSec]>>
             /\ badge' = updateBadge(timeRemaining)
             /\ UNCHANGED <<timers, hist>>
  /\ UNCHANGED <<now, clock, store, alarmAt, alarms, worker, startup, restarts,
                 popup, loadSnap, view, msgs, acks, events, clicks, installed>>
  /\ UNCHANGED uvars

\* the storage callbacks of the background's interval: "Update storage with
\* current time" (tick) and "Update state to stopped" (finish)
legacyTickCallback ==
  \E o \in Pending("tick") \cup Pending("finish") :
    /\ o.stage = "cb"
    /\ ops' = Done(o)
    /\ IF o.snap # <<>>
       THEN store' = <<IF o.kind = "tick"
                       THEN [o.snap[1] EXCEPT !.timeRemaining = o.val]
                       ELSE [o.snap[1] EXCEPT !.isRunning = FALSE,
                                              !.timeRemaining = 0]>>
       ELSE UNCHANGED store
    /\ UNCHANGED <<now, clock, alarmAt, alarms, worker, updateInterval, timers,
                   startup, restarts, badge, popup, loadSnap, view, msgs, acks,
                   events, clicks, installed, hist>>
    /\ UNCHANGED uvars

\* The extension is installed, the background loaded and idle, the popup
\* closed; the record is a one-minute session the user stopped with R seconds
\* left.
InitLegacy ==
  /\ now = ClockStart
  /\ clock = 0
  /\ \E R \in 1..MaxClock :
       store = <<Rec(1, R, FALSE, ClockStart - (SecPerMin - R) * MsPerSec, 0)>>
  /\ alarmAt = NoAlarm
  /\ alarms = 0
  /\ timers = 0
  /\ worker = TRUE
  /\ updateInterval = <<>>
  /\ ops = EmptyBag
  /\ startup = FALSE
  /\ restarts = 0
  /\ badge = NoBadge
  /\ popup = "closed"
  /\ loadSnap = <<>>
  /\ view = DefaultState
  /\ msgs = <<>>
  /\ acks = <<>>
  /\ events = <<>>
  /\ clicks = 0
  /\ installed = TRUE
  /\ hist = NoHist
  /\ settings = <<>>
  /\ prefs = DefaultPrefs
  /\ sevents = <<>>
  /\ debounceRef = <<>>
  /\ intervalRef = <<>>

NextLegacy ==
  \/ Tick
  \/ legacyMount
  \/ legacyLoadState
  \/ legacyHandleStart
  \/ legacyHandleStop
  \/ legacyHandleReset
  \/ legacyCountdown
  \/ legacyUnmount
  \/ WorkerStop
  \/ WorkerLoad
  \/ OnStartup
  \/ StorageRead
  \/ legacyInitializeTimer
  \/ legacyTimerTick
  \/ legacyTickCallback

SpecLegacy == InitLegacy /\ [][NextLegacy]_vars

\* ------------------------------------------------------------ step shapes
\* the step is the callback (or continuation) of pending call o
Completes(o) == o.stage = "cb" /\ worker' /\ ops' = Done(o)

\* initializeTimer continues on a record that is running with time left
Resumable(o) ==
  /\ o.kind = "init"
  /\ o.snap # <<>>
  /\ o.snap[1].isRunning
  /\ o.snap[1].timeRemaining > 0

\* one run only, with no stop, reset or quick-select since its start
SingleRun == hist.starts = 1 /\ ~hist.cut

Finished(s) == ~s.isRunning /\ s.timeRemaining = 0

\* ------------------------------------------------------------------ claims

\* C1: once the alarm handler's storage callback and the storage callbacks
\* of all earlier refresh ticks have completed, the persisted record has
\* isRunning = false and timeRemaining = 0.
C1_AlarmFinalizes ==
  (hist.alarm = "done" /\ Pending("tick") = {} /\ store # <<>>)
    => Finished(store[1])

\* C2: a run that reaches completion emits exactly one 'Timer Complete!'
\* notification, over the alarm handler and initializeTimer together.
C2_ExactlyOneNotification ==
  hist.starts = 1 =>
    /\ hist.notes <= 1
    /\ hist.alarm = "done" => hist.notes = 1

\* C3: within a single run, the remaining time initializeTimer resumes with
\* is max(0, V - floor((now - startTime)/1000)), V being the value start()
\* wrote, whatever the refresh ticks or earlier restarts did to the record.
C3_ResumeIsTrueRemaining ==
  [][\A o \in BagToSet(ops) :
       (Completes(o) /\ Resumable(o) /\ SingleRun)
         => store'[1].timeRemaining =
              Max(0, hist.V - ((now - hist.T) \div MsPerSec))]_vars

\* C4: on a stored record with isRunning = true, timeRemaining = R > 0 and
\* startTime = T0, read at time T1 >= T0, initializeTimer computes the
\* remaining time max(0, R - floor((T1 - T0)/1000)); the floor q is stated
\* by its bounds q*1000 <= T1 - T0 < (q+1)*1000.
C4_Recomputation ==
  ops = EmptyBag =>
    \E q \in 0..(now - hist.T) :
      /\ q * 1000 <= now - hist.T
      /\ now - hist.T < (q + 1) * 1000
      /\ store[1].timeRemaining = IF hist.V - q > 0 THEN hist.V - q ELSE 0

C4_Witness ==
  /\ ops = EmptyBag
  /\ (now - hist.T) % 1000 # 0
  /\ store[1].timeRemaining > 0
  /\ store[1].timeRemaining < hist.V
  /\ alarmAt # NoAlarm

C6_NoRefreshWriteAfterHalt ==
  [][\A o \in BagToSet(ops) :
       (Completes(o) /\ o.kind = "tick" /\ hist.halted) => store' = store]_vars

\* C7: handling stopTimer cancels the alarm and the periodic refresh, and
\* its write sets isRunning = false and leaves duration, timeRemaining,
\* startTime and pausedTime as they are in the record it is applied to.
C7_StopFrame ==
  [][/\ (/\ worker
          /\ msgs # <<>>
          /\ Head(msgs).action = "stopTimer"
          /\ msgs' = Tail(msgs))
         => alarmAt' = NoAlarm /\ updateInterval' = <<>>
     /\ \A o \in BagToSet(ops) :
          (Completes(o) /\ o.kind = "stop" /\ o.snap # <<>> /\ store # <<>>)
            => store' = <<[store[1] EXCEPT !.isRunning = FALSE]>>]_vars

\* C8: reset is idempotent.  Handling resetTimer cancels alarm and refresh
\* and, applied to the record it read, leaves isRunning = false and
\* timeRemaining = duration*60 of the persisted duration; handled again on
\* that result it changes neither the record, the alarm nor the refresh.
C8_ResetIdempotent ==
  [][/\ (/\ worker
          /\ msgs # <<>>
          /\ Head(msgs).action = "resetTimer"
          /\ msgs' = Tail(msgs))
         => alarmAt' = NoAlarm /\ updateInterval' = <<>>
     /\ \A o \in BagToSet(ops) :
          (Completes(o) /\ o.kind = "reset" /\ o.snap # <<>>)
            => /\ ~store'[1].isRunning
               /\ store'[1].timeRemaining = store'[1].duration * 60
               /\ alarmAt' = alarmAt /\ updateInterval' = updateInterval
               /\ o.snap = store =>
                    /\ store'[1].duration = store[1].duration
                    /\ (~store[1].isRunning /\
                         store[1].timeRemaining = store[1].duration * 60)
                          => store' = store]_vars

\* a second reset in a row has been applied
C8_WitnessTwice ==
  /\ hist.resets >= 2
  /\ Pending("reset") = {}
  /\ store # <<>>
  /\ AtFullDuration(store[1])
  /\ alarmAt = NoAlarm
  /\ updateInterval = <<>>

\* C9: the persisted record always has 0 <= timeRemaining <= duration*60.
C9_RemainingInRange ==
  store # <<>> =>
    /\ 0 <= store[1].timeRemaining
    /\ store[1].timeRemaining <= store[1].duration * 60

C11_RunningWriteIsSound ==
  [][(/\ store' # <<>>
      /\ store'[1].isRunning
      /\ (store = <<>> \/ ~store[1].isRunning))
       => /\ store'[1].startTime # NoTime
          /\ store'[1].timeRemaining > 0]_vars

\* C12: at any time at most one alarm 'pomodoroTimer' and at most one
\* periodic refresh interval exist (the interval being the one the worker
\* holds in updateInterval), whatever startTimer, stopTimer, resetTimer,
\* alarm firings and worker restarts have happened; and the popup runs no
\* countdown: its view changes only with a notification, an acknowledgement,
\* a user action or the popup opening or closing, never with time alone.
C12_OneDriver ==
  [][/\ alarms' <= 1
     /\ timers' <= 1
     /\ timers' = (IF updateInterval' # <<>> THEN 1 ELSE 0)
     /\ view' # view =>
          \/ events' # events
          \/ acks' # acks
          \/ clicks' # clicks
          \/ popup' # popup]_vars

\* startTimer handled twice with no stop or reset in between
C12_WitnessRestarted ==
  /\ hist.starts >= 2
  /\ ~hist.cut
  /\ msgs = <<>>
  /\ alarmAt = hist.T + hist.V * 1000
  /\ alarms = 1
  /\ timers = 1

\* C13: start() with view values duration d and timeRemaining t writes the
\* record {duration: d, timeRemaining: v, isRunning: true, startTime: now,
\* pausedTime: 0} and sends startTimer with timeRemaining v, where v = d*60
\* if t = 0 and v = t otherwise; the worker handling that message schedules
\* the alarm v seconds ahead.
C13_StartValue ==
  [][/\ (/\ popup = "open"
          /\ clicks' = clicks + 1
          /\ Len(msgs') = Len(msgs) + 1
          /\ msgs'[Len(msgs')].action = "startTimer")
         => \E v \in {view.duration * 60, view.timeRemaining} :
              /\ view.timeRemaining = 0 => v = view.duration * 60
              /\ view.timeRemaining # 0 => v = view.timeRemaining
              /\ store' = <<[duration |-> view.duration, timeRemaining |-> v,
                              isRunning |-> TRUE, startTime |-> now,
                              pausedTime |-> 0]>>
              /\ msgs'[Len(msgs')].timeRemaining = v
     /\ (/\ worker
          /\ msgs # <<>>
          /\ Head(msgs).action = "startTimer"
          /\ msgs' = Tail(msgs))
         => alarmAt' = now + Head(msgs).timeRemaining * 1000]_vars

\* a start after completion: the view showed 0 and the alarm is scheduled
\* for the full duration
C13_WitnessFromZero ==
  /\ hist.zero
  /\ hist.starts >= 1
  /\ store # <<>>
  /\ store[1].isRunning
  /\ hist.V = store[1].duration * 60
  /\ msgs = <<>>
  /\ alarmAt = hist.T + store[1].duration * 60 * 1000

\* C14: while a start, stop or reset of the popup has not been acknowledged
\* with success, the view's timeRemaining and isRunning do not change as a
\* result of it: with a worker that answers nothing, they change only with
\* another user action or with the popup opening or closing.
C14_NoAckNoViewChange ==
  [][(hist.wait # "none" /\ clicks' = clicks /\ popup' = popup)
       => /\ view'.timeRemaining = view.timeRemaining
          /\ view'.isRunning = view.isRunning]_vars

\* C15: while the persisted record is running, also between the write of
\* start() and the popup receiving the acknowledgement, a quick-select click
\* (a user action that sends no message) writes nothing to the record.
C15_QuickSelectRejected ==
  [][(/\ store # <<>>
      /\ store[1].isRunning
      /\ popup = "open"
      /\ popup' = "open"
      /\ clicks' = clicks + 1
      /\ msgs' = msgs)
       => store' = store]_vars

\* C16: while a run is in progress (the alarm set by the worker is pending:
\* from handling startTimer until stopTimer, resetTimer or the alarm firing),
\* every write that changes the persisted timeRemaining is a write of the
\* worker, that is, the completion of one of its storage callbacks.
C16_WorkerOwnsRemaining ==
  [][(/\ alarmAt # NoAlarm
      /\ store # <<>>
      /\ store'[1].timeRemaining # store[1].timeRemaining)
       => ops' # ops]_vars

\* C17: for a burst of accepted keystrokes in the custom-duration input, each
\* less than 300 ms after the one before, at most one write to the persisted
\* record results, and it carries the value of the last keystroke: duration
\* = that value and timeRemaining = value*60.
C17_DebounceLastValue ==
  (hist.rapid /\ hist.wrote # <<>>) =>
    /\ Len(hist.wrote) = 1
    /\ hist.wrote[1][1] = parseInt(hist.keys[Len(hist.keys)])
    /\ hist.wrote[1][2] = hist.wrote[1][1] * 60
    /\ now >= hist.keyAt + 300

\* two keystrokes 150 ms apart with different valid values, and the write
\* of the debounce 300 ms after the second
C17_WitnessBurst ==
  /\ hist.rapid
  /\ Len(hist.keys) = 2
  /\ hist.keyAt = hist.firstAt + 150
  /\ now >= hist.keyAt + 300
  /\ parseInt(hist.keys[1]) = 3
  /\ parseInt(hist.keys[2]) = 7
  /\ hist.wrote = <<<<7, 420>>>>
  /\ store[1].duration = 7
  /\ store[1].timeRemaining = 420

\* the number a text of one to three digits denotes
C18_Decimal(v) ==
  IF Len(v) = 1 THEN v[1]
  ELSE IF Len(v) = 2 THEN 10 * v[1] + v[2]
  ELSE 100 * v[1] + 10 * v[2] + v[3]

\* the text is a number in [1,180]
C18_Valid(v) ==
  /\ v # <<>>
  /\ \A i \in DOMAIN v : v[i] <= 9
  /\ C18_Decimal(v) >= 1
  /\ C18_Decimal(v) <= 180

\* C18: a custom-duration input that is empty, non-numeric, 0 or greater
\* than 180 never changes the persisted record or the popup's duration and
\* timeRemaining; a keystroke itself writes nothing; the debounce callback
\* writes only a value in [1,180], 300 ms or more after its keystroke, as
\* duration = value, timeRemaining = value*60, not running.
C18_OnlyValidWritten ==
  [][/\ hist'.typed # hist.typed =>
          /\ store' = store
          /\ view' = view
     /\ hist'.ran # hist.ran =>
          \E i \in DOMAIN debounceRef :
            LET t == debounceRef[i]
            IN /\ Len(debounceRef') = Len(debounceRef) - 1
               /\ now >= t.dueAt
               /\ t.dueAt >= hist.firstAt + 300
               /\ IF C18_Valid(t.value)
                  THEN /\ store' = <<[duration |-> C18_Decimal(t.value),
                                      timeRemaining |-> C18_Decimal(t.value) * 60,
                                      isRunning |-> FALSE, startTime |-> 0,
                                      pausedTime |-> 0]>>
                       /\ view'.duration = C18_Decimal(t.value)
                       /\ view'.timeRemaining = C18_Decimal(t.value) * 60
                  ELSE /\ store' = store
                       /\ view'.duration = view.duration
                       /\ view'.timeRemaining = view.timeRemaining]_vars

\* "0" was typed and its debounce callback has run and written nothing
C18_WitnessZero ==
  /\ hist.keys = <<<<0>>>>
  /\ hist.ran = 1
  /\ hist.wrote = <<>>
  /\ debounceRef = <<>>
  /\ now >= hist.keyAt + 300
  /\ view.duration # 0

\* C19: the alarm callback attempts to open the popup only if the stored
\* settings record it read does not have autoOpenPopupOnComplete disabled,
\* and makes no attempt when the choice the user made last in the popup,
\* before that read, is to disable auto-open; whether or not it attempts, it
\* writes the finalized record and emits the notification.
C19_AutoOpenOnlyIfEnabled ==
  [][\A o \in BagToSet(ops) :
       (Completes(o) /\ o.kind = "alarm") =>
         /\ hist'.notes = hist.notes + 1
         /\ o.snap # <<>> =>
              store' = <<[o.snap[1] EXCEPT !.isRunning = FALSE,
                                           !.timeRemaining = 0]>>
         /\ hist'.open = "attempt" =>
              /\ o.sets # <<>> => o.sets[1].autoOpenPopupOnComplete # "false"
              /\ o.user # "false"]_vars

\* C20: once the popup has loaded, whenever every storage change
\* notification has been delivered and no action of the popup awaits its
\* acknowledgement, the view (duration, timeRemaining, isRunning) equals the
\* persisted record.
C20_ViewEqualsStore ==
  (/\ popup = "open"
   /\ events = <<>>
   /\ msgs = <<>>
   /\ acks = <<>>
   /\ debounceRef = <<>>
   /\ store # <<>>)
    => /\ view.duration = store[1].duration
       /\ view.timeRemaining = store[1].timeRemaining
       /\ view.isRunning = store[1].isRunning

\* C21: the periodic refresh reaching zero does not complete a run.  The tick
\* at zero clears its own interval, clears the badge and issues the write of
\* timeRemaining = 0, changing neither the record nor the alarm; the write of
\* a refresh tick emits no notification, and the write of the tick at zero
\* does not set the persisted isRunning to false.
C21_TickNeverCompletes ==
  [][/\ (updateInterval # <<>> /\ updateInterval' = <<>> /\ alarmAt' = alarmAt
          /\ alarmAt # NoAlarm /\ worker')
         => /\ badge' = NoBadge
            /\ store' = store
            /\ hist'.notes = hist.notes
     /\ \A o \in BagToSet(ops) :
          (Completes(o) /\ o.kind = "tick" /\ store # <<>>)
            => /\ hist'.notes = hist.notes
               /\ store'[1].timeRemaining = o.val
               /\ (o.val = 0 /\ store[1].isRunning) => store'[1].isRunning]_vars

\* C22: a run started by startTimer and followed by no stop, reset or new
\* start eventually reaches the persisted state isRunning = false,
\* timeRemaining = 0, the alarm and the storage callbacks being fair, also
\* when the worker is stopped and loaded again during the run.
C22_RunCompletes == <>(store # <<>> /\ Finished(store[1]))

\* C23: the persisted duration is always an integer in [1,180], whatever
\* circle clicks, quick-selects, starts, stops and resets the user makes in
\* the popup.
C23_DurationInRange ==
  store # <<>> => store[1].duration \in MinCustom..MaxCustom

\* C24: updateBadge(t) sets the badge text to floor(t/60) followed by 'm'
\* for t >= 60, to t followed by 's' for 0 < t < 60, and clears the badge
\* for t <= 0; 90 gives '1m', 45 gives '45s', 0 clears.  t is the value of
\* the refresh tick that set the badge; the floor m of t/60 is stated by its
\* bounds m*60 <= t < (m+1)*60.
C24_BadgeText ==
  \A o \in Pending("tick") :
    LET t == o.val
    IN /\ t >= 60 => /\ badge.unit = "m"
                     /\ badge.num * 60 <= t
                     /\ t < (badge.num + 1) * 60
       /\ (0 < t /\ t < 60) => badge = [num |-> t, unit |-> "s"]
       /\ t <= 0 => badge = [num |-> 0, unit |-> ""]
       /\ t = 90 => badge = [num |-> 1, unit |-> "m"]
       /\ t = 45 => badge = [num |-> 45, unit |-> "s"]

\* the tick with 90 seconds left has set the badge to '1m'
C24_Witness90 ==
  \E o \in Pending("tick") :
    o.val = 90 /\ badge = [num |-> 1, unit |-> "m"]

\* C25: the worker answers every startTimer, stopTimer and resetTimer
\* message it handles with exactly one response {success: true}, whether or
\* not a record is stored; a message with another action gets no response
\* and changes nothing.
C25_OneResponse ==
  [][(worker /\ msgs # <<>> /\ msgs' = Tail(msgs)) =>
       LET m == Head(msgs)
       IN /\ m.action \in {"startTimer", "stopTimer", "resetTimer"}
               => acks' = Append(acks, m)
          /\ m.action \notin {"startTimer", "stopTimer", "resetTimer"}
               => /\ acks' = acks
                  /\ UNCHANGED <<store, alarmAt, alarms, updateInterval,
                                 timers, ops, badge, view, events, hist>>]_vars

\* with no record stored, two messages have been handled and answered
C25_WitnessNoRecord ==
  /\ store = <<>>
  /\ msgs = <<>>
  /\ Len(acks) = 2
  /\ acks[1].action = "stopTimer"
  /\ acks[2].action = "resetTimer"
  /\ ops = EmptyBag

\* C26: when the storage write of start() fails, the operation is abandoned:
\* no startTimer message is sent, and the persisted record, the view, the
\* alarm and the refresh keep their values; as long as no start() has
\* succeeded, no alarm or refresh is scheduled and no startTimer message is
\* in flight.
C26_FailedStartAbandoned ==
  [][/\ hist'.failed # hist.failed =>
          /\ msgs' = msgs
          /\ store' = store
          /\ view' = view
          /\ alarmAt' = alarmAt
          /\ updateInterval' = updateInterval
     /\ hist'.starts = 0 =>
          /\ alarmAt' = NoAlarm
          /\ updateInterval' = <<>>
          /\ \A i \in DOMAIN msgs' : msgs'[i].action # "startTimer"
          /\ \A i \in DOMAIN acks' : acks'[i].action # "startTimer"]_vars

\* a start() has failed on a view with time left, and nothing has started
C26_WitnessFailed ==
  /\ hist.failed >= 1
  /\ hist.starts = 0
  /\ view.timeRemaining > 0
  /\ ~view.isRunning
  /\ ~store[1].isRunning
  /\ msgs = <<>>
  /\ alarmAt = NoAlarm

\* C27: the install handler sets the persisted pomodoroState to {duration:
\* 25, timeRemaining: 1500, isRunning: false, startTime: null, pausedTime: 0}
\* and the settings to {autoOpenPopupOnComplete: true, theme: 'dark'}, and no
\* step of the popup or the worker removes a stored pomodoroState record.
C27_InstallDefaults ==
  [][/\ (~installed /\ installed') =>
          /\ store' = <<[duration |-> 25, timeRemaining |-> 1500,
                         isRunning |-> FALSE, startTime |-> 0,
                         pausedTime |-> 0]>>
          /\ settings' = <<[theme |-> "dark",
                            autoOpenPopupOnComplete |-> "true",
                            autoOpenPopup |-> "undefined"]>>
     /\ store # <<>> => store' # <<>>]_vars

\* installed from nothing, then the popup opened on the default record
C27_WitnessInstalled ==
  /\ installed
  /\ store = <<DefaultState>>
  /\ settings = <<DefaultSettings>>
  /\ popup = "open"
  /\ view = DefaultView

\* C28: the periodic refresh interval exists only while the wake-up alarm is
\* pending: start creates both, stop and reset cancel both, and the alarm
\* handler cancels the refresh when the alarm is consumed.
C28_RefreshImpliesAlarm ==
  /\ updateInterval # <<>> => alarmAt # NoAlarm
  /\ timers > 0 => alarms > 0

\* the alarm of a run has fired and is consumed, its handler has not yet
\* finalized the record, and no refresh is left
C28_WitnessConsumed ==
  /\ hist.alarm = "fired"
  /\ alarmAt = NoAlarm
  /\ updateInterval = <<>>
  /\ Pending("tick") = {}
  /\ store # <<>>
  /\ store[1].isRunning
  /\ store[1].timeRemaining > 0

\* C29: toggleTheme changes only the theme: the stored settings after it
\* give the alarm handler's test of autoOpenPopupOnComplete the result they
\* gave before; and toggleAutoOpenPopup leaves the stored theme as it was.
C29_ToggleFrame ==
  [][(popup = "open" /\ popup' = "open" /\ clicks' = clicks + 1) =>
       /\ hist'.toggled = "theme" => autoOpens(settings') = autoOpens(settings)
       /\ hist'.toggled = "auto" =>
            settings'[1].theme = settings[1].theme]_vars

\* C30: a persisted record with isRunning = true has timeRemaining > 0, in
\* any interleaving of refresh ticks, alarm firing and worker restarts.
C30_RunningHasTime ==
  (store # <<>> /\ store[1].isRunning) => store[1].timeRemaining > 0

\* C31: initializeTimer does nothing when no run is in flight: on a record
\* that is absent, not running or without time left it writes nothing,
\* schedules no alarm and no refresh, emits no notification and leaves the
\* badge as it is.
C31_InitNoOp ==
  [][\A o \in BagToSet(ops) :
       (/\ Completes(o)
        /\ o.kind = "init"
        /\ (\/ o.snap = <<>>
            \/ ~o.snap[1].isRunning
            \/ o.snap[1].timeRemaining <= 0))
         => /\ store' = store
            /\ events' = events
            /\ alarmAt' = alarmAt
            /\ alarms' = alarms
            /\ updateInterval' = updateInterval
            /\ timers' = timers
            /\ hist'.notes = hist.notes
            /\ badge' = badge]_vars

\* initializeTimer has run on a record that is running with no time left
C31_WitnessAtZero ==
  /\ ops = EmptyBag
  /\ store # <<>>
  /\ store[1].isRunning
  /\ store[1].timeRemaining = 0
  /\ alarmAt = NoAlarm
  /\ updateInterval = <<>>
  /\ hist.notes = 0
  /\ badge = updateBadge(SecPerMin)

\* C32: blurring the custom-duration input cancels the pending debounce:
\* once the input has lost the focus less than 300 ms after the last
\* keystroke, and until the next keystroke, no timeout is pending and no
\* debounce callback of that typing has written the record or set the view,
\* however much time passes.
C32_BlurCancels ==
  hist.blurred =>
    /\ debounceRef = <<>>
    /\ hist.wrote = <<>>

\* "3" was typed, the input blurred 150 ms later, and 300 ms and more after
\* the keystroke the record does not have duration 3
C32_WitnessBlurred ==
  /\ hist.blurred
  /\ hist.keys = <<<<3>>>>
  /\ now >= hist.keyAt + 2 * FineStep
  /\ popup = "open"
  /\ store[1].duration # 3
  /\ view.duration # 3

\* C33: loadTimerState returns the stored pomodoroState when there is one,
\* and the record {duration: 25, timeRemaining: 1500, isRunning: false,
\* startTime: null, pausedTime: 0} when none is stored and when the storage
\* read fails; it does not throw (loadState goes on and sets the view from
\* what it returned) and it writes nothing to storage.
C33_LoadOrDefault ==
  [][(popup = "loading" /\ popup' = "open") =>
       LET ok == hist'.readFails = hist.readFails
           ret == IF ok /\ loadSnap # <<>> THEN loadSnap[1]
                  ELSE [duration |-> 25, timeRemaining |-> 1500,
                        isRunning |-> FALSE, startTime |-> 0,
                        pausedTime |-> 0]
       IN /\ loadTimerState(ok, loadSnap) = ret
          /\ view' = [duration |-> ret.duration,
                      timeRemaining |-> ret.timeRemaining,
                      isRunning |-> ret.isRunning]
          /\ store' = store]_vars

\* the read was rejected while a running record is stored, and the view
\* shows the defaults
C33_WitnessReadFailed ==
  /\ hist.readFails = 1
  /\ popup = "open"
  /\ store # <<>>
  /\ store[1].isRunning
  /\ store[1].duration = 1
  /\ view = [duration |-> 25, timeRemaining |-> 1500, isRunning |-> FALSE]

\* C34: in the pairing of the self-counting popup with the interval-based
\* background, the popup's 1-second interval and the background's 1-second
\* interval never both exist, so that a session is never counted down by both
\* at the same time, also when the background loads or starts up while the
\* popup is open on a running record.
C34_OneCountdownDriver ==
  ~(/\ popup = "open"
    /\ intervalRef # <<>>
    /\ worker
    /\ updateInterval # <<>>)

====
